---------------------------- MODULE Spec2Model ----------------------------
(***************************************************************************)
(* RefflyAI rulebook search API (apps/functions/index.js, first snapshot,  *)
(* lines 1-470): the rule store, the synonym table, the per-address        *)
(* rate-limit bucket and the four HTTP handlers.                           *)
(*                                                                         *)
(* A JavaScript string is a sequence of one-character strings.  The       *)
(* characters outside ASCII are written as words: RSQUO (U+2019),         *)
(* ELLIPSIS (U+2026), LAQUO (U+00AB), RAQUO (U+00BB), EMDASH (U+2014);     *)
(* TAB is the tab character.  An absent object property                    *)
(* (undefined) is a name that is not in the DOMAIN of the record.         *)
(***************************************************************************)
EXTENDS Integers, Sequences, FiniteSets, TLC

VARIABLES RULES, SYNONYMS, RL_BUCKET, now, res, admitted, call

vars == <<RULES, SYNONYMS, RL_BUCKET, now, res, admitted, call>>

---------------------------------------------------------------------------
(* Characters and the JavaScript string primitives the code uses.          *)

UPPER == <<"A","B","C","D","E","F","G","H","I","J","K","L","M","N","O","P","Q","R","<<",">>T","U","V","W","X","Y","Z">>

LOWER == <<"a","b","c","d","e","f","g","h","i","j","k","l","m","n","o","p","q","r","s","t","u","v","w","x","y","z">>

DIGITS == <<"0","1","2","3","4","5","6","7","8","9">>

Range(s) == {s[i] : i \in DOMAIN s}

SPACES == {" ", "TAB"}

WORD_CHARS == Range(UPPER) \cup Range(LOWER) \cup Range(DIGITS) \cup {"_"}

TO_LOWER == [c \in Range(UPPER) |-> LOWER[CHOOSE i \in DOMAIN UPPER : UPPER[i] = c]]

\* \s of a regular expression, and the characters String.prototype.trim removes
IsSpace(c) == c \in SPACES

\* \w of a regular expression: [A-Za-z0-9_]
IsWordChar(c) == c \in WORD_CHARS

lcChar(c) == IF c \in DOMAIN TO_LOWER THEN TO_LOWER[c] ELSE c

Min2(a, b) == IF a <= b THEN a ELSE b

Max2(a, b) == IF a >= b THEN a ELSE b

MinOf(S) == CHOOSE x \in S : \A y \in S : x <= y

\* Array.prototype.slice / String.prototype.slice(a, b), 0 <= a, 0 <= b
Slice(s, a, b) == IF a >= Min2(b, Len(s)) THEN <<>> ELSE SubSeq(s, a + 1, Min2(b, Len(s)))

\* String.prototype.indexOf: the 0-based offset of the first occurrence, or -1
IndexOf(h, n) ==
  LET at == {i \in 0..(Len(h) - Len(n)) :
               n = <<>> \/ (h[i + 1] = n[1] /\ SubSeq(h, i + 1, i + Len(n)) = n)}
  IN  IF at = {} THEN -1 ELSE MinOf(at)

\* Array.prototype.indexOf(x) !== -1
InSeq(s, x) == \E i \in DOMAIN s : s[i] = x

MaxOf(S) == CHOOSE x \in S : \A y \in S : x >= y

\* The positions of s that hold no white space
Inked(s) == {i \in DOMAIN s : ~IsSpace(s[i])}

\* String.prototype.trimStart
TrimStart(s) == IF Inked(s) = {} THEN <<>> ELSE SubSeq(s, MinOf(Inked(s)), Len(s))

\* String.prototype.trimEnd
TrimEnd(s) == IF Inked(s) = {} THEN <<>> ELSE SubSeq(s, 1, MaxOf(Inked(s)))

\* String.prototype.trim
Trim(s) == TrimEnd(TrimStart(s))

\* s.replace(/\s+/g, " "): every maximal run of white space becomes one space.
\* The two halves of s are collapsed apart; a run that spans the cut is joined.
RECURSIVE CollapseWs(_)
CollapseWs(s) ==
  IF s = <<>> THEN <<>>
  ELSE IF Len(s) = 1 THEN (IF IsSpace(s[1]) THEN <<" ">> ELSE s)
  ELSE LET m == Len(s) \div 2
           a == CollapseWs(SubSeq(s, 1, m))
           b == CollapseWs(SubSeq(s, m + 1, Len(s)))
       IN  IF a[Len(a)] = " " /\ b[1] = " " THEN a \o Tail(b) ELSE a \o b

\* rule[f], or "" for a property the record does not have: (s || "")
Field(r, f) == IF f \in DOMAIN r THEN r[f] ELSE <<>>

\* r.f != null
Has(r, f) == f \in DOMAIN r

\* clean without its final trim()
cleanNoTrim(s) == CollapseWs(s)

clean(s) == Trim(CollapseWs(s))

lc(s) == [i \in DOMAIN s |-> lcChar(s[i])]

RECURSIVE JoinSep(_, _)
JoinSep(parts, sep) ==
  IF parts = <<>> THEN <<>>
  ELSE IF Len(parts) = 1 THEN parts[1]
  ELSE parts[1] \o sep \o JoinSep(Tail(parts), sep)

buildTitle(rule) ==
  LET p1 == IF Field(rule, "parentRule") # <<>> THEN <<clean(rule.parentRule)>> ELSE <<>>
      p2 == IF Field(rule, "title") # <<>> THEN <<clean(rule.title)>> ELSE <<>>
      p3 == IF Field(rule, "subsection") # <<>> THEN <<clean(rule.subsection)>> ELSE <<>>
      p  == p1 \o p2 \o p3
      parts == IF p = <<>> /\ Field(rule, "subtitle") # <<>> THEN <<clean(rule.subtitle)>> ELSE p
      joined == JoinSep(parts, <<" ","EMDASH"," ">>)
  IN  IF joined # <<>> THEN joined
      ELSE IF clean(Field(rule, "subtitle")) # <<>> THEN clean(Field(rule, "subtitle"))
      ELSE <<"R","u","l","e">>

getCitation(rule) ==
  LET candidates == <<clean(Field(rule, "citation")), clean(Field(rule, "citation1")),
                      clean(Field(rule, "rule_id")), clean(Field(rule, "ruleId")),
                      clean(Field(rule, "id"))>>
      ok == {i \in DOMAIN candidates : candidates[i] # <<>>}
  IN  IF ok = {} THEN <<>> ELSE candidates[MinOf(ok)]

\* A word boundary (\b) at offset p of h: exactly one of the characters on its
\* two sides is a word character; beyond either end there is none.
WordBoundary(h, p) ==
  LET left  == p >= 1 /\ IsWordChar(h[p])
      right == p < Len(h) /\ IsWordChar(h[p + 1])
  IN  left # right

\* safeWordRegex(term).test(hay): RegExp("\\b" + escapeRegExp(term) + "\\b", "i").
\* escapeRegExp makes every character of term match itself, so the pattern always
\* compiles and matches term literally, case-insensitively, between two \b.
safeWordRegexTest(term, hay) ==
  LET t == lc(term)
      h == lc(hay)
  IN  \E i \in 0..(Len(h) - Len(t)) :
         /\ WordBoundary(hay, i)
         /\ WordBoundary(hay, i + Len(t))
         /\ SubSeq(h, i + 1, i + Len(t)) = t

---------------------------------------------------------------------------
(* The synonym table: an object, kept as the sequence of its entries in    *)
(* Object.keys order.                                                      *)

DEFAULT_SYNONYMS == <<
  [key |-> <<"o","f","f","e","n","s","i","v","e"," ","i","n","t","e","r","f","e","r","e","n","c","e">>, alts |-> <<<<"b","a","t","t","e","r"," ","i","n","t","e","r","f","e","r","e","n","c","e">>, <<"b","a","t","t","e","r","s"," ","i","n","t","e","r","f","e","r","e","n","c","e">>, <<"b","a","t","t","e","r","RSQUO","s"," ","i","n","t","e","r","f","e","r","e","n","c","e">>>>],
  [key |-> <<"b","a","t","t","e","r"," ","i","n","t","e","r","f","e","r","e","n","c","e">>, alts |-> <<<<"o","f","f","e","n","s","i","v","e"," ","i","n","t","e","r","f","e","r","e","n","c","e">>, <<"b","a","t","t","e","r","RSQUO","s"," ","i","n","t","e","r","f","e","r","e","n","c","e">>>>],
  [key |-> <<"c","a","t","c","h","e","r","'","s"," ","i","n","t","e","r","f","e","r","e","n","c","e">>, alts |-> <<<<"c","a","t","c","h","e","r","s"," ","i","n","t","e","r","f","e","r","e","n","c","e">>, <<"b","a","t","t","e","r"," ","i","n","t","e","r","f","e","r","e","n","c","e">>, <<"o","f","f","e","n","s","i","v","e"," ","i","n","t","e","r","f","e","r","e","n","c","e">>>>],
  [key |-> <<"o","b","s","t","r","u","c","t","i","o","n">>, alts |-> <<<<"f","i","e","l","d","e","r"," ","o","b","s","t","r","u","c","t","i","o","n">>, <<"o","b","s","t","r","u","c","t","i","n","g"," ","t","h","e"," ","r","u","n","n","e","r">>>>],
  [key |-> <<"i","n","f","i","e","l","d"," ","f","l","y">>, alts |-> <<<<"i","n","f","i","e","l","d"," ","f","l","y"," ","r","u","l","e">>, <<"i","f","r">>>>],
  [key |-> <<"i","f","r">>, alts |-> <<<<"i","n","f","i","e","l","d"," ","f","l","y">>, <<"i","n","f","i","e","l","d"," ","f","l","y"," ","r","u","l","e">>>>],
  [key |-> <<"b","a","l","k","s">>, alts |-> <<<<"b","a","l","k">>>>],
  [key |-> <<"t","a","g"," ","u","p">>, alts |-> <<<<"r","e","t","o","u","c","h">>, <<"t","i","m","e"," ","p","l","a","y">>>>],
  [key |-> <<"a","p","p","e","a","l"," ","p","l","a","y">>, alts |-> <<<<"a","p","p","e","a","l">>>>],
  [key |-> <<"f","o","r","c","e"," ","p","l","a","y">>, alts |-> <<<<"f","o","r","c","e"," ","o","u","t">>>>],
  [key |-> <<"t","i","m","e"," ","p","l","a","y">>, alts |-> <<<<"t","i","m","i","n","g"," ","p","l","a","y">>>>],
  [key |-> <<"f","o","u","l"," ","t","i","p">>, alts |-> <<<<"c","a","u","g","h","t"," ","f","o","u","l"," ","t","i","p">>>>],
  [key |-> <<"g","r","o","u","n","d","-","r","u","l","e"," ","d","o","u","b","l","e">>, alts |-> <<<<"a","u","t","o","m","a","t","i","c"," ","d","o","u","b","l","e">>>>],
  [key |-> <<"d","e","a","d"," ","b","a","l","l">>, alts |-> <<<<"b","a","l","l"," ","i","s"," ","d","e","a","d">>>>],
  [key |-> <<"c","h","e","c","k"," ","s","w","i","n","g">>, alts |-> <<<<"s","w","i","n","g"," ","a","t","t","e","m","p","t">>, <<"d","i","d"," ","h","e"," ","g","o">>>>],
  [key |-> <<"b","u","n","t"," ","a","t","t","e","m","p","t">>, alts |-> <<<<"o","f","f","e","r"," ","a","t"," ","b","u","n","t">>, <<"s","q","u","a","r","e","d"," ","t","o"," ","b","u","n","t">>>>] >>

\* for (j ...) if (terms.indexOf(alts[j]) === -1) terms.push(alts[j])
RECURSIVE PushNew(_, _)
PushNew(terms, alts) ==
  IF alts = <<>> THEN terms
  ELSE PushNew(IF InSeq(terms, Head(alts)) THEN terms ELSE Append(terms, Head(alts)), Tail(alts))

\* for (i ...) { key = keys[i]; if (base.indexOf(key) !== -1) ... }
RECURSIVE ExpandKeys(_, _, _)
ExpandKeys(terms, base, entries) ==
  IF entries = <<>> THEN terms
  ELSE ExpandKeys(IF IndexOf(base, Head(entries).key) # -1
                  THEN PushNew(terms, Head(entries).alts) ELSE terms,
                  base, Tail(entries))

\* The alternates of the keys found in each term of todo, pushed onto terms
RECURSIVE ExpandEach(_, _)
ExpandEach(terms, todo) ==
  IF todo = <<>> THEN terms
  ELSE ExpandEach(ExpandKeys(terms, lc(Head(todo)), SYNONYMS), Tail(todo))

\* expandQueryWithSynonyms with the alternates expanded once more
expandQueryMultiHop(q) ==
  LET once == ExpandKeys(<<q>>, lc(q), SYNONYMS)
  IN  PushNew(<<>>, ExpandEach(once, once))

expandQueryWithSynonyms(q) ==
  LET terms == ExpandKeys(<<q>>, lc(q), SYNONYMS)
  IN  PushNew(<<>>, terms)

---------------------------------------------------------------------------
(* Scoring.                                                                *)

FIELDS == <<"title", "subtitle", "content", "references", "parentRule", "subsection">>

FIELD_WT == [title |-> 3, subtitle |-> 2, content |-> 4, references |-> 1, parentRule |-> 2, subsection |-> 2]

RECURSIVE SumSeq(_)
SumSeq(s) == IF s = <<>> THEN 0 ELSE Head(s) + SumSeq(Tail(s))

\* One pass of the loop over queries (lines 152-162) for the term queries[qi]
TermScore(rule, rawTerm) ==
  LET term == lc(rawTerm)
      blob == [f \in Range(FIELDS) |-> lc(clean(Field(rule, f)))]
      perField == [k \in DOMAIN FIELDS |->
                     LET hay == blob[FIELDS[k]]
                         wt  == FIELD_WT[FIELDS[k]]
                     IN  IF hay = <<>> THEN 0
                         ELSE (IF safeWordRegexTest(term, hay) THEN 5 * wt ELSE 0)
                            + (IF IndexOf(hay, term) >= 0 THEN 1 * wt ELSE 0)]
  IN  SumSeq(perField)
      + (IF blob.content # <<>> /\ IndexOf(blob.content, term) # -1 THEN 3 ELSE 0)

scoreRule(rule, queries) == SumSeq([qi \in DOMAIN queries |-> TermScore(rule, queries[qi])])

---------------------------------------------------------------------------
(* Excerpt and highlight.                                                  *)

\* makeExcerpt with the window at the start of the text wherever the term is
makeExcerptFromStart(text, queries, maxLen) ==
  LET MAX == IF maxLen = 0 THEN 240 ELSE maxLen
      t == clean(text)
      end == Min2(Len(t), MAX)
  IN  IF t = <<>> THEN <<>>
      ELSE Trim(Slice(t, 0, end)) \o (IF end < Len(t) THEN <<" ","ELLIPSIS">> ELSE <<>>)

makeExcerpt(text, queries, maxLen) ==
  LET MAX == IF maxLen = 0 THEN 240 ELSE maxLen
      t == clean(text)
      base == lc(t)
      idxs == {IndexOf(base, lc(queries[i])) : i \in DOMAIN queries} \ {-1}
      foundAt == IF idxs = {} THEN -1 ELSE MinOf(idxs)
      PAD == MAX \div 2
      start == Max2(0, foundAt - PAD)
      end == Min2(Len(t), start + MAX)
      snippet == Trim(Slice(t, start, end))
  IN  IF t = <<>> THEN <<>>
      ELSE IF foundAt = -1
      THEN (IF Len(t) <= MAX THEN t ELSE TrimEnd(Slice(t, 0, MAX - 1)) \o <<"ELLIPSIS">>)
      ELSE (IF start > 0 THEN <<"ELLIPSIS"," ">> ELSE <<>>) \o snippet \o (IF end < Len(t) THEN <<" ","ELLIPSIS">> ELSE <<>>)

\* out.replace(new RegExp("(" + escapeRegExp(term) + ")", "gi"), LAQUO + "$1" + RAQUO) for a
\* non-empty term: the matches are found left to right and do not overlap.
RECURSIVE ReplaceAll(_, _)
ReplaceAll(out, term) ==
  LET i == IndexOf(lc(out), lc(term))
  IN  IF i = -1 THEN out
      ELSE SubSeq(out, 1, i) \o <<"LAQUO">> \o SubSeq(out, i + 1, i + Len(term)) \o <<"RAQUO">>
           \o ReplaceAll(SubSeq(out, i + Len(term) + 1, Len(out)), term)

\* The loop of highlight (lines 186-190) from queries[i] on, with the terms seen
RECURSIVE HighlightFrom(_, _, _)
HighlightFrom(out, queries, seen) ==
  IF queries = <<>> THEN out
  ELSE LET term == Trim(Head(queries))
       IN  IF term = <<>> \/ term \in seen
           THEN HighlightFrom(out, Tail(queries), seen)
           ELSE HighlightFrom(ReplaceAll(out, term), Tail(queries), seen \cup {term})

highlight(text, queries) == IF text = <<>> THEN <<>> ELSE HighlightFrom(text, queries, {})

---------------------------------------------------------------------------
(* Request parameters.  A query-string parameter is a string or undefined. *)

UNDEFINED == <<"UNDEFINED">>

\* req.query[name]
Param(query, name) == IF name \in DOMAIN query THEN query[name] ELSE UNDEFINED

\* JavaScript truthiness of a string or undefined
Truthy(v) == v # UNDEFINED /\ v # <<>>

\* a || b
OrElse(a, b) == IF Truthy(a) THEN a ELSE b

parseBool(v, def) ==
  IF v = UNDEFINED THEN def ELSE lc(v) \in {<<"1">>, <<"t","r","u","e">>, <<"y","e","s">>}

DIGIT_VAL == [c \in Range(DIGITS) |-> (CHOOSE i \in DOMAIN DIGITS : DIGITS[i] = c) - 1]

DigitVal(c) == DIGIT_VAL[c]

\* The longest run of decimal digits s starts with
DigitsPrefix(s) ==
  LET other == {i \in DOMAIN s : s[i] \notin DOMAIN DIGIT_VAL}
  IN  IF other = {} THEN s ELSE SubSeq(s, 1, MinOf(other) - 1)

RECURSIVE DecimalValue(_)
DecimalValue(ds) ==
  IF ds = <<>> THEN 0 ELSE 10 * DecimalValue(SubSeq(ds, 1, Len(ds) - 1)) + DigitVal(ds[Len(ds)])

\* parseInt(v, 10) followed by Number.isFinite(n) && n >= 0 ? n : def.
\* parseInt skips leading white space, takes an optional sign, then the longest
\* run of decimal digits; with no digit (or v undefined) the result is NaN.
parseIntSafe(v, def) ==
  LET s0 == IF v = UNDEFINED THEN <<>> ELSE TrimStart(v)
      neg == s0 # <<>> /\ Head(s0) = "-"
      s1 == IF s0 # <<>> /\ Head(s0) \in {"-", "+"} THEN Tail(s0) ELSE s0
      ds == DigitsPrefix(s1)
  IN  IF ds = <<>> THEN def
      ELSE IF neg /\ DecimalValue(ds) > 0 THEN def
      ELSE DecimalValue(ds)

---------------------------------------------------------------------------
(* Rule lookup.                                                            *)

\* x is a string or undefined (UNDEFINED, or an absent property read by Field)
normalizeId(x) == IF x = UNDEFINED THEN <<>> ELSE Trim(x)

normalizeCitation(x) == IF x = UNDEFINED THEN <<>> ELSE CollapseWs(Trim(x))

\* the 1-based position in RULES of the record returned, or 0 for null
findById(id) ==
  LET want == normalizeId(id)
      hit == {i \in DOMAIN RULES :
                \E f \in {"id", "rule_id", "ruleId"} : normalizeId(Field(RULES[i], f)) = want}
  IN  IF hit = {} THEN 0 ELSE MinOf(hit)

\* the 1-based position in RULES of the record returned, or 0 for null
findByCitation(c) ==
  LET want == lc(normalizeCitation(c))
      hit == {i \in DOMAIN RULES :
                \E f \in {"citation", "citation1", "rule_id", "ruleId"} :
                   LET got == lc(normalizeCitation(Field(RULES[i], f)))
                   IN  got # <<>> /\ got = want}
  IN  IF hit = {} THEN 0 ELSE MinOf(hit)

---------------------------------------------------------------------------
(* Search and suggest.                                                     *)

\* String(r.id != null ? r.id : (r.rule_id != null ? r.rule_id : (r.ruleId != null ? r.ruleId : "")))
ResultId(r) ==
  IF Has(r, "id") THEN r.id
  ELSE IF Has(r, "rule_id") THEN r.rule_id
  ELSE IF Has(r, "ruleId") THEN r.ruleId
  ELSE <<>>

\* The place of item x in a list already sorted by the comparator b.s - a.s:
\* Array.prototype.sort is stable (Node 20), so x goes behind the items it ties with.
RECURSIVE InsertDesc(_, _)
InsertDesc(sorted, x) ==
  IF sorted = <<>> THEN <<x>>
  ELSE IF Head(sorted).s >= x.s THEN <<Head(sorted)>> \o InsertDesc(Tail(sorted), x)
  ELSE <<x>> \o sorted

\* searchRules without its sort: the matches stay in store order
Unsorted(scored) == scored

\* scored.sort(function (a, b) { return b.s - a.s; })
RECURSIVE SortDesc(_)
SortDesc(scored) ==
  IF scored = <<>> THEN <<>>
  ELSE InsertDesc(SortDesc(SubSeq(scored, 1, Len(scored) - 1)), scored[Len(scored)])

\* The scoring loop with the test s >= 0 in place of s > 0
RECURSIVE ScoredFromKeepsZero(_, _)
ScoredFromKeepsZero(rules, queries) ==
  IF rules = <<>> THEN <<>>
  ELSE LET s == scoreRule(Head(rules), queries)
       IN  (IF s >= 0 THEN <<[r |-> Head(rules), s |-> s]>> ELSE <<>>) \o ScoredFromKeepsZero(Tail(rules), queries)

\* The scoring loop of searchRules (lines 241-246): the records with s > 0, in store order
RECURSIVE ScoredFrom(_, _)
ScoredFrom(rules, queries) ==
  IF rules = <<>> THEN <<>>
  ELSE LET s == scoreRule(Head(rules), queries)
       IN  (IF s > 0 THEN <<[r |-> Head(rules), s |-> s]>> ELSE <<>>) \o ScoredFrom(Tail(rules), queries)

\* One result of searchRules (lines 252-266)
SearchResult(item, queries, doHighlight) ==
  LET content == clean(Field(item.r, "content"))
      excerpt == makeExcerpt(content, queries, 240)
  IN  [id |-> ResultId(item.r),
       title |-> buildTitle(item.r),
       citation |-> getCitation(item.r),
       score |-> item.s,
       excerpt |-> IF doHighlight /\ excerpt # <<>> THEN highlight(excerpt, queries) ELSE excerpt]

\* opts = [q, limit, offset, doHighlight].  scoreCalls counts the calls of
\* scoreRule the run made; it is not part of the value the code returns.
searchRules(opts) ==
  LET limit == IF opts.limit = 0 THEN 5 ELSE opts.limit
      offset == opts.offset
      rawQuery == clean(opts.q)
      queries == expandQueryWithSynonyms(rawQuery)
      scored == SortDesc(ScoredFrom(RULES, queries))
      slice == Slice(scored, offset, offset + limit)
  IN  IF rawQuery = <<>> THEN [hits |-> 0, results |-> <<>>, scoreCalls |-> 0]
      ELSE [hits |-> Len(scored),
            results |-> [i \in DOMAIN slice |-> SearchResult(slice[i], queries, opts.doHighlight)],
            scoreCalls |-> Len(RULES)]

scoreForSuggest(rule, queries) ==
  LET title == lc(buildTitle(rule))
      cit == lc(getCitation(rule))
      content == lc(clean(Field(rule, "content")))
      perTerm == [i \in DOMAIN queries |->
                    LET term == lc(queries[i])
                    IN  (IF safeWordRegexTest(term, title) THEN 20 ELSE 0)
                      + (IF safeWordRegexTest(term, cit) THEN 12 ELSE 0)
                      + (IF IndexOf(title, term) # -1 THEN 6 ELSE 0)
                      + (IF IndexOf(cit, term) # -1 THEN 4 ELSE 0)
                      + (IF IndexOf(content, term) # -1 THEN 1 ELSE 0)]
  IN  SumSeq(perTerm)

\* The scoring loop of suggestRules (lines 295-300)
RECURSIVE SuggestScoredFrom(_, _)
SuggestScoredFrom(rules, queries) ==
  IF rules = <<>> THEN <<>>
  ELSE LET s == scoreForSuggest(Head(rules), queries)
       IN  (IF s > 0 THEN <<[r |-> Head(rules), s |-> s]>> ELSE <<>>) \o SuggestScoredFrom(Tail(rules), queries)

\* The collecting loop of suggestRules (lines 303-317) over the rest of scored
RECURSIVE Collect(_, _, _, _)
Collect(scored, out, seen, limit) ==
  IF scored = <<>> \/ ~(Len(out) < limit) THEN out
  ELSE LET r == Head(scored).r
           title == buildTitle(r)
           citation == getCitation(r)
           key == title \o <<" ","|"," ">> \o citation
       IN  IF key \in seen THEN Collect(Tail(scored), out, seen, limit)
           ELSE Collect(Tail(scored),
                        Append(out, [id |-> ResultId(r), title |-> title, citation |-> citation]),
                        seen \cup {key}, limit)

\* opts = [q, limit]
suggestRules(opts) ==
  LET q == clean(opts.q)
      limit == IF opts.limit = 0 THEN 8 ELSE opts.limit
      queries == expandQueryWithSynonyms(q)
      scored == SortDesc(SuggestScoredFrom(RULES, queries))
  IN  IF q = <<>> THEN <<>> ELSE Collect(scored, <<>>, {}, limit)

---------------------------------------------------------------------------
(* CORS and rate limiting.                                                 *)

\* RATE_LIMIT_WINDOW_MS and RATE_LIMIT_MAX of the environment (defaults "60000"
\* and "60"), here a window of 2 ms and 2 requests per window.
RL_WINDOW_MS == 1

RL_MAX == 2

PROD_ORIGIN == <<"h","t","t","p","s",":","/","/","r","e","f","f","l","y","-","s","e","a","r","c","h",".","v","e","r","c","e","l",".","a","p","p">>

isAllowedOrigin(origin) == origin = PROD_ORIGIN

\* Whether applyCors sets the Access-Control-* headers
applyCors(req) == isAllowedOrigin(OrElse(Param(req.headers, "origin"), <<>>))

\* xff.split(",")[0]
BeforeComma(s) == IF IndexOf(s, <<",">>) = -1 THEN s ELSE SubSeq(s, 1, IndexOf(s, <<",">>))

clientIp(req) ==
  LET xff == Param(req.headers, "x-forwarded-for")
      real == Param(req.headers, "x-real-ip")
  IN  IF Truthy(xff) THEN Trim(BeforeComma(xff))
      ELSE IF Truthy(real) THEN Trim(real)
      ELSE req.ip

\* RL_BUCKET.get(ip) || []
BucketGet(ip) == IF ip \in DOMAIN RL_BUCKET THEN RL_BUCKET[ip] ELSE <<>>

\* Map.prototype.set
MapSet(m, k, v) == [x \in DOMAIN m \cup {k} |-> IF x = k THEN v ELSE m[x]]

\* Math.ceil(a / b) for a >= 0, b > 0
CeilDiv(a, b) == (a + b - 1) \div b

\* The timestamps of arr that pass now - arr[i] <= RL_WINDOW_MS, in order
RECURSIVE Fresh(_)
Fresh(arr) ==
  IF arr = <<>> THEN <<>>
  ELSE (IF now - Head(arr) <= RL_WINDOW_MS THEN <<Head(arr)>> ELSE <<>>) \o Fresh(Tail(arr))

\* rateLimited with the test fresh.length > RL_MAX
rateLimitedOneMore(req) ==
  LET ip == OrElse(clientIp(req), <<"u","n","k","n","o","w","n">>)
      fresh == Fresh(BucketGet(ip))
  IN  IF Len(fresh) > RL_MAX
      THEN [limited |-> TRUE, ip |-> ip, bucket |-> RL_BUCKET]
      ELSE [limited |-> FALSE, ip |-> ip, bucket |-> MapSet(RL_BUCKET, ip, Append(fresh, now))]

\* rateLimited with the timestamp of a refused request recorded as well
rateLimitedRecordsRefused(req) ==
  LET ip == OrElse(clientIp(req), <<"u","n","k","n","o","w","n">>)
      fresh == Fresh(BucketGet(ip))
  IN  [limited |-> Len(fresh) >= RL_MAX, ip |-> ip, bucket |-> MapSet(RL_BUCKET, ip, Append(fresh, now))]

\* [limited: what rateLimited returns; ip; bucket: RL_BUCKET as the call leaves it]
rateLimited(req) ==
  LET ip == OrElse(clientIp(req), <<"u","n","k","n","o","w","n">>)
      fresh == Fresh(BucketGet(ip))
  IN  IF Len(fresh) >= RL_MAX
      THEN [limited |-> TRUE, ip |-> ip, bucket |-> RL_BUCKET]
      ELSE [limited |-> FALSE, ip |-> ip, bucket |-> MapSet(RL_BUCKET, ip, Append(fresh, now))]

---------------------------------------------------------------------------
(* HTTP handlers.  A request is [method, headers, ip, query, body]; query  *)
(* and body are objects of string properties (body is {} when the request  *)
(* has none).  res is the response the last handler sent: its status, its  *)
(* Retry-After header (0: not set), its JSON body, and in did which of     *)
(* searchRules, suggestRules, findById, findByCitation the handler called. *)
(* With string parameters nothing in a handler throws, so the catch        *)
(* clauses (status 500) are not reached.                                   *)

EMPTY == [x \in {} |-> <<>>]

NoBody == [kind |-> "none"]

ErrorBody(msg) == [kind |-> "error", ok |-> FALSE, error |-> msg]

Response(endpoint, req, status, retryAfter, body, did) ==
  [endpoint |-> endpoint, req |-> req, status |-> status,
   retryAfter |-> retryAfter, cors |-> applyCors(req), body |-> body, did |-> did]

\* res.status(204).end()
Preflight(endpoint, req) == Response(endpoint, req, 204, 0, NoBody, "none")

\* The response rateLimited sends when it returns true (lines 348-349)
TooMany(endpoint, req) ==
  Response(endpoint, req, 429, CeilDiv(RL_WINDOW_MS, 1000), ErrorBody("Rate limit exceeded"), "none")

\* q of rulebook and suggest (lines 365-367, 404-406): a string, or UNDEFINED when falsy
RequestQ(req) ==
  IF req.method = "GET" THEN OrElse(Param(req.query, "q"), Param(req.query, "query"))
  ELSE IF req.method = "POST" THEN OrElse(Param(req.body, "q"), Param(req.body, "query"))
  ELSE UNDEFINED

\* rulebook with q required, as the other three endpoints require their parameter
rulebookRespondNeedsQ(req) ==
  LET q == RequestQ(req)
      limit == parseIntSafe(Param(req.query, "limit"), 5)
      offset == parseIntSafe(Param(req.query, "offset"), 0)
      highlightFlag == parseBool(Param(req.query, "highlight"), FALSE)
      result == searchRules([q |-> q, limit |-> limit, offset |-> offset, doHighlight |-> highlightFlag])
  IN  IF ~Truthy(q)
      THEN Response("rulebook", req, 400, 0, ErrorBody("Missing q"), "none")
      ELSE Response("rulebook", req, 200, 0,
                    [kind |-> "search", ok |-> TRUE, query |-> q, limit |-> limit, offset |-> offset,
                     highlight |-> highlightFlag, hits |-> result.hits, results |-> result.results],
                    "searchRules")

\* rulebook once the request is admitted (lines 365-391)
rulebookRespond(req) ==
  LET q == RequestQ(req)
      limit == parseIntSafe(Param(req.query, "limit"), 5)
      offset == parseIntSafe(Param(req.query, "offset"), 0)
      highlightFlag == parseBool(Param(req.query, "highlight"), FALSE)
      result == searchRules([q |-> q, limit |-> limit, offset |-> offset, doHighlight |-> highlightFlag])
  IN  IF ~Truthy(q)
      THEN Response("rulebook", req, 200, 0,
                    [kind |-> "health", ok |-> TRUE, rules_loaded |-> Len(RULES),
                     first_item_keys |-> IF RULES = <<>> THEN {} ELSE DOMAIN RULES[1]],
                    "none")
      ELSE Response("rulebook", req, 200, 0,
                    [kind |-> "search", ok |-> TRUE, query |-> q, limit |-> limit, offset |-> offset,
                     highlight |-> highlightFlag, hits |-> result.hits, results |-> result.results],
                    "searchRules")

\* suggest once the request is admitted (lines 404-425)
suggestRespond(req) ==
  LET q == RequestQ(req)
      limit == parseIntSafe(Param(req.query, "limit"), 8)
  IN  IF ~Truthy(q)
      THEN Response("suggest", req, 200, 0,
                    [kind |-> "help", ok |-> TRUE, rules_loaded |-> Len(RULES)], "none")
      ELSE Response("suggest", req, 200, 0,
                    [kind |-> "suggest", ok |-> TRUE, query |-> q, limit |-> limit,
                     suggestions |-> suggestRules([q |-> q, limit |-> limit])],
                    "suggestRules")

\* ruleById once the request is admitted (lines 438-445)
ruleByIdRespond(req) ==
  LET id == Param(req.query, "id")
      r == findById(id)
  IN  IF ~Truthy(id) THEN Response("ruleById", req, 400, 0, ErrorBody("Missing id"), "none")
      ELSE IF r = 0 THEN Response("ruleById", req, 404, 0, ErrorBody("Not found"), "findById")
      ELSE Response("ruleById", req, 200, 0, [kind |-> "rule", ok |-> TRUE, rule |-> RULES[r]], "findById")

\* ruleByCitation once the request is admitted (lines 458-465)
ruleByCitationRespond(req) ==
  LET c == OrElse(Param(req.query, "citation"), Param(req.query, "c"))
      r == findByCitation(c)
  IN  IF ~Truthy(c) THEN Response("ruleByCitation", req, 400, 0, ErrorBody("Missing citation"), "none")
      ELSE IF r = 0 THEN Response("ruleByCitation", req, 404, 0, ErrorBody("Not found"), "findByCitation")
      ELSE Response("ruleByCitation", req, 200, 0, [kind |-> "rule", ok |-> TRUE, rule |-> RULES[r]], "findByCitation")

\* The admitted timestamps of an address so far (a history of the run, not program state)
AdmittedOf(ip) == IF ip \in DOMAIN admitted THEN admitted[ip] ELSE <<>>

\* The frame with rateLimited called before the OPTIONS test
HandleLimitFirst(endpoint, req, respond) ==
  LET rl == rateLimited(req)
  IN  /\ IF rl.limited
         THEN /\ res' = TooMany(endpoint, req)
              /\ RL_BUCKET' = rl.bucket
              /\ UNCHANGED admitted
         ELSE /\ res' = IF req.method = "OPTIONS" THEN Preflight(endpoint, req) ELSE respond
              /\ RL_BUCKET' = rl.bucket
              /\ admitted' = MapSet(admitted, rl.ip, Append(AdmittedOf(rl.ip), now))
      /\ UNCHANGED <<RULES, SYNONYMS, now, call>>

\* The frame with an endpoint that leaves the store in reverse order
HandleReordersStore(endpoint, req, respond) ==
  LET rl == rateLimited(req)
  IN  /\ IF req.method = "OPTIONS"
         THEN /\ res' = Preflight(endpoint, req)
              /\ UNCHANGED <<RL_BUCKET, admitted, RULES>>
         ELSE IF rl.limited
         THEN /\ res' = TooMany(endpoint, req)
              /\ RL_BUCKET' = rl.bucket
              /\ UNCHANGED <<admitted, RULES>>
         ELSE /\ res' = respond
              /\ RL_BUCKET' = rl.bucket
              /\ admitted' = MapSet(admitted, rl.ip, Append(AdmittedOf(rl.ip), now))
              /\ RULES' = [i \in DOMAIN RULES |-> RULES[Len(RULES) + 1 - i]]
      /\ UNCHANGED <<SYNONYMS, now, call>>

\* The common frame of the four handlers (lines 360-363): applyCors, the
\* OPTIONS preflight, rateLimited, then the endpoint's own work.
Handle(endpoint, req, respond) ==
  LET rl == rateLimited(req)
  IN  /\ IF req.method = "OPTIONS"
         THEN /\ res' = Preflight(endpoint, req)
              /\ UNCHANGED <<RL_BUCKET, admitted>>
         ELSE IF rl.limited
         THEN /\ res' = TooMany(endpoint, req)
              /\ RL_BUCKET' = rl.bucket
              /\ UNCHANGED admitted
         ELSE /\ res' = respond
              /\ RL_BUCKET' = rl.bucket
              /\ admitted' = MapSet(admitted, rl.ip, Append(AdmittedOf(rl.ip), now))
      /\ UNCHANGED <<RULES, SYNONYMS, now, call>>

rulebook(req) == Handle("rulebook", req, rulebookRespond(req))

suggest(req) == Handle("suggest", req, suggestRespond(req))

ruleById(req) == Handle("ruleById", req, ruleByIdRespond(req))

ruleByCitation(req) == Handle("ruleByCitation", req, ruleByCitationRespond(req))

---------------------------------------------------------------------------
(* The service: the store as data/mlbrules.json gives it, the clients and  *)
(* the requests they send.                                                 *)

\* Date.now() does not pass MaxNow
MaxNow == 2

STORE == <<
  [rule_id |-> <<"5",".","0","9">>, title |-> <<"I","n","f","i","e","l","d"," ","F","l","y">>, citation |-> <<"5",".","0","9","(","a",")">>,
   content |-> <<"T","h","e"," ","i","n","f","i","e","l","d"," ","f","l","y"," ","r","u","l","e"," "," ","a","p","p","l","i","e","s"," ","w","i","t","h"," ","r","u","n","n","e","r","s"," ","o","n"," ","b","a","s","e",".">>],
  [id |-> <<"6",".","0","2">>, title |-> <<"B","a","l","k","s">>, subtitle |-> <<"P","i","t","c","h","e","r">>,
   content |-> <<"A"," ","b","a","l","k"," ","i","s"," ","n","o","t"," ","i","n","t","e","r","f","e","r","e","n","c","e",".">>],
  [ruleId |-> <<"6",".","0","1">>, parentRule |-> <<"I","n","t","e","r","f","e","r","e","n","c","e">>, title |-> <<"O","f","f","e","n","s","i","v","e"," ","I","n","t","e","r","f","e","r","e","n","c","e">>,
   content |-> <<"O","f","f","e","n","s","i","v","e"," ","i","n","t","e","r","f","e","r","e","n","c","e"," ","o","c","c","u","r","s"," ","w","h","e","n"," ","t","h","e"," ","b","a","t","t","e","r"," ","h","i","n","d","e","r","s"," ","t","h","e"," ","c","a","t","c","h","e","r",".">>],
  [rule_id |-> <<"5",".","0","9">>, title |-> <<"I","n","f","i","e","l","d"," ","F","l","y">>, citation |-> <<"5",".","0","9","(","a",")">>,
   content |-> <<"I","F","R"," ","i","s"," ","d","e","c","l","a","r","e","d"," ","b","y"," ","t","h","e"," ","u","m","p","i","r","e",".">>] >>

\* The store after a successful load, and after a failed one (lines 48-57)
STORES == {STORE, <<>>}

CLIENT_A == [headers |-> ("x-forwarded-for" :> <<"1",".","1",".","1",".","1",","," ","1","0",".","0",".","0",".","9">>) @@ ("origin" :> PROD_ORIGIN),
             ip |-> <<"1","0",".","0",".","0",".","9">>]

CLIENT_B == [headers |-> EMPTY, ip |-> <<>>]

CLIENTS == {CLIENT_A, CLIENT_B}

Req(m, c, qy, b) == [method |-> m, headers |-> c.headers, ip |-> c.ip, query |-> qy, body |-> b]

\* The requests of an endpoint: GET with each query, POST with each JSON body, OPTIONS
Requests(clients, queries, bodies) ==
  {Req("GET", c, qy, EMPTY) : c \in clients, qy \in queries}
  \cup {Req("POST", c, EMPTY, b) : c \in clients, b \in bodies}
  \cup {Req("OPTIONS", c, EMPTY, EMPTY) : c \in clients}

\* The requests of Spec: client A calls each endpoint, rulebook with and
\* without q; client B shares the rulebook endpoint with it.
RULEBOOK_REQS ==
  Requests({CLIENT_A}, {EMPTY, [q |-> <<"b","a","l","k">>]}, {EMPTY}) \cup {Req("GET", CLIENT_B, EMPTY, EMPTY)}

SUGGEST_REQS == Requests({CLIENT_A}, {EMPTY}, {})

ID_REQS == Requests({CLIENT_A}, {EMPTY, [id |-> <<"6",".","0","2">>]}, {})

CITATION_REQS == Requests({CLIENT_A}, {[c |-> <<"n","o","p","e">>]}, {})

\* The requests of SpecApi: one client, the parameters of each endpoint varied
API_RULEBOOK_REQS ==
  Requests({CLIENT_A},
           {EMPTY, [q |-> <<>>], [q |-> <<" ">>], [q |-> <<"z","z","z">>],
            [q |-> <<"i","n","t","e","r","f","e","r","e","n","c","e">>],
            [q |-> <<"i","n","t","e","r","f","e","r","e","n","c","e">>, limit |-> <<"0">>],
            [q |-> <<"i","n","t","e","r","f","e","r","e","n","c","e">>, limit |-> <<"1">>],
            [q |-> <<"i","n","t","e","r","f","e","r","e","n","c","e">>, limit |-> <<"1">>, offset |-> <<"1">>],
            [q |-> <<"i","n","t","e","r","f","e","r","e","n","c","e">>, limit |-> <<"2">>, offset |-> <<"1">>],
            [q |-> <<"i","n","t","e","r","f","e","r","e","n","c","e">>, limit |-> <<"-","1">>, offset |-> <<"x">>],
            [q |-> <<"i","n","t","e","r","f","e","r","e","n","c","e">>, offset |-> <<"7">>],
            [query |-> <<"I","n","f","i","e","l","d"," ","F","l","y">>, highlight |-> <<"1">>],
            [q |-> <<"b","a","l","k","s">>, highlight |-> <<"t","r","u","e">>, limit |-> <<" ","3","p","x">>]},
           {EMPTY, [q |-> <<"t","a","g"," ","u","p">>]})

API_SUGGEST_REQS ==
  Requests({CLIENT_A},
           {EMPTY, [q |-> <<" ">>],
            [q |-> <<"f","l","y">>],
            [q |-> <<"f","l","y">>, limit |-> <<"0">>],
            [q |-> <<"f","l","y">>, limit |-> <<"1">>],
            [q |-> <<"i","n","t","e","r","f","e","r","e","n","c","e">>, limit |-> <<"2">>],
            [query |-> <<"5",".","0","9">>, limit |-> <<"3">>]},
           {[query |-> <<"i","f","r">>]})

API_ID_REQS ==
  Requests({CLIENT_A},
           {EMPTY, [id |-> <<>>], [id |-> <<" ">>], [id |-> <<" ","5",".","0","9"," ">>], [id |-> <<"5",".","0","9","(","a",")">>],
            [id |-> <<"6",".","0","1">>], [id |-> <<"6",".","0","2">>], [id |-> <<"7",".","7","7">>]},
           {})

API_CITATION_REQS ==
  Requests({CLIENT_A},
           {EMPTY, [citation |-> <<" ">>], [citation |-> <<"5",".","0","9","(","A",")">>], [c |-> <<"6",".","0","1">>],
            [c |-> <<"6",".","0","2">>], [c |-> <<"n","o","p","e">>]},
           {})

NoCall == [fn |-> "none"]

NoResponse == [endpoint |-> "none", status |-> 0, did |-> "none"]

Init ==
  /\ RULES \in STORES
  /\ SYNONYMS = DEFAULT_SYNONYMS
  /\ RL_BUCKET = EMPTY
  /\ now = 0
  /\ res = NoResponse
  /\ admitted = EMPTY
  /\ call = NoCall

\* Date.now() moves on between two requests
Tick ==
  /\ now < MaxNow
  /\ now' = now + 1
  /\ UNCHANGED <<RULES, SYNONYMS, RL_BUCKET, res, admitted, call>>

Next ==
  \/ \E req \in RULEBOOK_REQS : rulebook(req)
  \/ \E req \in SUGGEST_REQS : suggest(req)
  \/ \E req \in ID_REQS : ruleById(req)
  \/ \E req \in CITATION_REQS : ruleByCitation(req)
  \/ Tick

Spec == Init /\ [][Next]_vars

NextApi ==
  \/ \E req \in API_RULEBOOK_REQS : rulebook(req)
  \/ \E req \in API_SUGGEST_REQS : suggest(req)
  \/ \E req \in API_ID_REQS : ruleById(req)
  \/ \E req \in API_CITATION_REQS : ruleByCitation(req)
  \/ Tick

SpecApi == Init /\ [][NextApi]_vars

---------------------------------------------------------------------------
(* searchRules as a function of its options: call holds one application,   *)
(* its arguments first and its value once it has run.                      *)

\* opts.limit and opts.offset range over 0..MaxLimit and 0..MaxOffset
MaxLimit == 3

MaxOffset == 2

SEARCH_QUERIES == {
  <<>>, <<" ">>, <<" ","TAB"," ">>, <<"z","z","z">>, <<"i","n","t","e","r","f","e","r","e","n","c","e">>, <<"O","f","f","e","n","s","i","v","e"," "," ","I","n","t","e","r","f","e","r","e","n","c","e">>,
  <<"i","n","f","i","e","l","d"," ","f","l","y">>, <<"I","F","R">>, <<"b","a","l","k","s">>, <<"b","a","l","k">>, <<"t","h","e">>, <<"t","a","g"," ","u","p">>, <<"5",".","0","9">> }

SEARCH_OPTS ==
  {[q |-> q, limit |-> l, offset |-> o, doHighlight |-> h] :
     q \in SEARCH_QUERIES, l \in 0..MaxLimit, o \in 0..MaxOffset, h \in BOOLEAN}

InitSearch ==
  /\ RULES \in STORES
  /\ SYNONYMS = DEFAULT_SYNONYMS
  /\ RL_BUCKET = EMPTY
  /\ now = 0
  /\ res = NoResponse
  /\ admitted = EMPTY
  /\ call \in {[fn |-> "searchRules", args |-> o, done |-> FALSE, out |-> <<>>] : o \in SEARCH_OPTS}

RunSearch ==
  /\ call.fn = "searchRules"
  /\ ~call.done
  /\ call' = [call EXCEPT !.done = TRUE, !.out = searchRules(call.args)]
  /\ UNCHANGED <<RULES, SYNONYMS, RL_BUCKET, now, res, admitted>>

SpecSearch == InitSearch /\ [][RunSearch]_vars

\* The term list searchRules scores with
QueriesOf(q) == expandQueryWithSynonyms(clean(q))

\* q is empty or holds white space only
IsBlank(q) == \A i \in DOMAIN q : IsSpace(q[i])

SearchDone == call.fn = "searchRules" /\ call.done

\* The positions in RULES of the records that scoreRule gives more than 0
Matching(queries) == {i \in DOMAIN RULES : scoreRule(RULES[i], queries) > 0}

\* C1: scoreRule gives every record an integer >= 0; every result of searchRules
\* is a record of the store whose score is > 0, with that score; hits is the
\* number of records of the store whose score is > 0 (no record is scored, and
\* hits is 0, for a blank query).
C1_ScoreAndHits ==
  SearchDone =>
    LET queries == QueriesOf(call.args.q)
        results == call.out.results
    IN  /\ \A i \in DOMAIN RULES : scoreRule(RULES[i], queries) \in Nat
        /\ \A k \in DOMAIN results :
              /\ results[k].score > 0
              /\ \E i \in Matching(queries) :
                    /\ results[k].score = scoreRule(RULES[i], queries)
                    /\ results[k].id = ResultId(RULES[i])
                    /\ results[k].title = buildTitle(RULES[i])
        /\ call.out.hits = IF IsBlank(call.args.q) THEN 0 ELSE Cardinality(Matching(queries))

\* A search that returned some records of the store and left out others
C1_Witness ==
  /\ SearchDone
  /\ call.out.results # <<>>
  /\ call.out.hits = Len(call.out.results)
  /\ call.out.hits < Len(RULES)

\* C2: the results of searchRules are in descending score order.
C2_Descending ==
  SearchDone =>
    \A k \in 1..(Len(call.out.results) - 1) :
       call.out.results[k].score >= call.out.results[k + 1].score

\* A search whose two best matches stand in the store in ascending score order
C2_Witness ==
  /\ SearchDone
  /\ Len(call.out.results) >= 2
  /\ call.out.results[1].score > call.out.results[2].score
  /\ call.args.offset = 0
  /\ LET inStore == ScoredFrom(RULES, QueriesOf(call.args.q))
     IN  inStore[1].s < call.out.results[1].score

\* C4: a blank query (empty, or white space only) yields {hits: 0, results: []}
\* and no call of scoreRule, whatever the store, limit, offset and highlight flag.
C4_BlankQuery ==
  (SearchDone /\ IsBlank(call.args.q)) =>
     call.out = [hits |-> 0, results |-> <<>>, scoreCalls |-> 0]

\* A white-space query ran against the loaded store, with highlight and an offset
C4_Witness ==
  /\ SearchDone
  /\ IsBlank(call.args.q)
  /\ call.args.q # <<>>
  /\ RULES # <<>>
  /\ call.args.doHighlight
  /\ call.args.offset > 0
  /\ call.out.hits = 0

---------------------------------------------------------------------------
(* The endpoints.                                                          *)

\* res answers a request that passed the OPTIONS test and the rate limiter
Answered(endpoint) == res.endpoint = endpoint /\ res.req.method # "OPTIONS" /\ res.status # 429

\* The address the limiter counts a request under
AddressOf(req) == OrElse(clientIp(req), <<"u","n","k","n","o","w","n">>)

\* How many admitted requests of an address have a timestamp t with lo <= t <= hi
AdmittedIn(ip, lo, hi) ==
  Cardinality({i \in DOMAIN AdmittedOf(ip) : lo <= AdmittedOf(ip)[i] /\ AdmittedOf(ip)[i] <= hi})

\* A step in which an endpoint handles a request that is not OPTIONS
Handles == now' = now /\ res'.endpoint # "none" /\ res'.req.method # "OPTIONS"

\* The step admits the request: it is recorded with timestamp now for its address
Admits ==
  admitted' = MapSet(admitted, AddressOf(res'.req), Append(AdmittedOf(AddressOf(res'.req)), now))

C5_Step ==
  Handles =>
    LET ip == AddressOf(res'.req)
    IN  IF AdmittedIn(ip, now - RL_WINDOW_MS, now) < RL_MAX
        THEN Admits /\ res'.status # 429
        ELSE /\ admitted' = admitted
             /\ res'.status = 429
             /\ res'.retryAfter >= 1
             /\ res'.body = ErrorBody("Rate limit exceeded")
             /\ res'.did = "none"

\* C5: a request that is not OPTIONS is admitted only if fewer than RL_MAX
\* admitted requests of its address have a timestamp within RL_WINDOW_MS of now,
\* so no address has more than RL_MAX admitted requests in a span of
\* RL_WINDOW_MS; every other request gets 429 with Retry-After, and the endpoint
\* runs no search and no lookup for it.
C5_RateLimit ==
  /\ [][C5_Step]_vars
  /\ [](\A ip \in DOMAIN admitted : \A a \in 0..MaxNow :
          AdmittedIn(ip, a, a + RL_WINDOW_MS) <= RL_MAX)

\* A search request refused while its address has RL_MAX admitted requests in the window
C5_Witness ==
  /\ res.endpoint = "rulebook"
  /\ res.status = 429
  /\ Truthy(RequestQ(res.req))
  /\ AdmittedIn(AddressOf(res.req), now - RL_WINDOW_MS, now) = RL_MAX
  /\ Len(AdmittedOf(AddressOf(res.req))) > RL_MAX

\* A GET or POST to rulebook without q or query
NoQ(r) == r.endpoint = "rulebook" /\ r.req.method \in {"GET", "POST"} /\ ~Truthy(RequestQ(r.req))

\* The health payload with the corpus size
Health(r) ==
  /\ r.status = 200
  /\ r.body.kind = "health"
  /\ r.body.ok
  /\ r.body.rules_loaded = Len(RULES)

\* C6 as stated: in every reachable state a GET or POST to rulebook without
\* q/query is answered 200, ok:true, with the health payload, never with an error.
C6_AlwaysHealth == NoQ(res) => Health(res)

\* C6: a GET or POST to rulebook without q/query is answered 200, ok:true with
\* the health payload holding the corpus size when the limiter admits it, and
\* 429 when its address has used up RL_MAX requests in the window.
C6_HealthWhenAdmitted ==
  [][(Handles /\ NoQ(res')) =>
       IF AdmittedIn(AddressOf(res'.req), now - RL_WINDOW_MS, now) < RL_MAX
       THEN Health(res') /\ Admits
       ELSE res'.status = 429 /\ admitted' = admitted]_vars

\* The health payload sent after both clients have had requests admitted
C6_Witness ==
  /\ NoQ(res)
  /\ Health(res)
  /\ res.req.method = "POST"
  /\ \A c \in CLIENTS : Len(AdmittedOf(AddressOf(c))) >= 1

\* C3: for every non-negative limit and offset (limit = 0 and an offset past the
\* end included) the results of the rulebook endpoint are the entries
\* [offset, offset + limit) of the score-sorted matches, min(limit, max(0, hits -
\* offset)) of them, and hits is the number of all matches.
C3_PageOfMatches ==
  (res.endpoint = "rulebook" /\ res.body.kind = "search") =>
    LET b == res.body
        all == searchRules([q |-> b.query, limit |-> Len(RULES) + 1, offset |-> 0,
                            doHighlight |-> b.highlight]).results
    IN  /\ b.hits = Len(all)
        /\ b.results = Slice(all, b.offset, b.offset + b.limit)
        /\ Len(b.results) = Min2(b.limit, Max2(0, b.hits - b.offset))

\* C7: an admitted ruleById request is answered 400 without an id, 404 when no
\* record has an id, rule_id or ruleId field whose trimmed value is the trimmed id,
\* and else 200 with the first record of the store that has such a field.
C7_LookupById ==
  Answered("ruleById") =>
    LET id == Param(res.req.query, "id")
        hit == {i \in DOMAIN RULES :
                  \E f \in {"id", "rule_id", "ruleId"} :
                     Has(RULES[i], f) /\ Trim(RULES[i][f]) = Trim(id)}
    IN  IF ~Truthy(id) THEN res.status = 400
        ELSE IF hit = {} THEN res.status = 404
        ELSE res.status = 200 /\ res.body.rule = RULES[MinOf(hit)]

\* The suggestion score of the best record that has the title and citation of entry e
EntryScore(e, queries) ==
  MaxOf({scoreForSuggest(RULES[i], queries) :
           i \in {j \in DOMAIN RULES : buildTitle(RULES[j]) = e.title /\ getCitation(RULES[j]) = e.citation}})

\* C8: the list of suggestRules holds no two entries with the same (title,
\* citation), at most limit entries, each of a record whose suggestion score
\* is > 0, in descending order of that score.
C8_Suggestions ==
  (res.endpoint = "suggest" /\ res.body.kind = "suggest") =>
    LET out == res.body.suggestions
        queries == QueriesOf(res.body.query)
    IN  /\ \A i, j \in DOMAIN out :
              i # j => <<out[i].title, out[i].citation>> # <<out[j].title, out[j].citation>>
        /\ Len(out) <= res.body.limit
        /\ \A i \in DOMAIN out :
              /\ \E k \in DOMAIN RULES :
                    buildTitle(RULES[k]) = out[i].title /\ getCitation(RULES[k]) = out[i].citation
              /\ EntryScore(out[i], queries) > 0
        /\ \A i \in 1..(Len(out) - 1) :
              EntryScore(out[i], queries) >= EntryScore(out[i + 1], queries)

---------------------------------------------------------------------------
(* makeExcerpt as a function of its arguments.                             *)

\* The short texts have at most MaxTextLen characters
MaxTextLen == 4

TEXT_CHARS == {"a", "B", " "}

RECURSIVE Texts(_)
Texts(n) == IF n = 0 THEN {<<>>} ELSE Texts(n - 1) \cup {Append(t, c) : t \in Texts(n - 1), c \in TEXT_CHARS}

TERM_LISTS == {<<<<"a">>>>, <<<<"b">>>>, <<<<"a","b">>, <<"b","a">>>>, <<<<"b"," ","a">>>>, <<<<"A","a","b">>>>, <<<<"a","a">>, <<"z","z">>>>, <<<<"z","z">>>>, <<>>}

\* n times x, a word of m times y, n times z, a space on each side of the word
LongText(n, m) ==
  [i \in 1..(2 * n + m + 2) |->
     IF i <= n THEN "x"
     ELSE IF i = n + 1 \/ i = n + m + 2 THEN " "
     ELSE IF i <= n + m + 1 THEN "y"
     ELSE "z"]

Word(m) == [i \in 1..m |-> "y"]

\* Short texts with a short maxLen (0: the caller gave none), and the maxLen
\* of searchRules with a word of 120 and of 121 characters inside a long text
EXCERPT_ARGS ==
  {[text |-> t, queries |-> ts, maxLen |-> m] : t \in Texts(MaxTextLen), ts \in TERM_LISTS, m \in {0, 3, 4}}
  \cup {[text |-> LongText(130, m), queries |-> <<Word(m)>>, maxLen |-> 240] : m \in {120, 121}}

InitExcerpt ==
  /\ RULES = <<>>
  /\ SYNONYMS = DEFAULT_SYNONYMS
  /\ RL_BUCKET = EMPTY
  /\ now = 0
  /\ res = NoResponse
  /\ admitted = EMPTY
  /\ call \in {[fn |-> "makeExcerpt", args |-> a, done |-> FALSE, out |-> <<>>] : a \in EXCERPT_ARGS}

RunExcerpt ==
  /\ call.fn = "makeExcerpt"
  /\ ~call.done
  /\ call' = [call EXCEPT !.done = TRUE,
                          !.out = makeExcerpt(call.args.text, call.args.queries, call.args.maxLen)]
  /\ UNCHANGED <<RULES, SYNONYMS, RL_BUCKET, now, res, admitted>>

SpecExcerpt == InitExcerpt /\ [][RunExcerpt]_vars

ExcerptDone == call.fn = "makeExcerpt" /\ call.done

\* The maximum that is configured for a call
MaxFor(maxLen) == IF maxLen = 0 THEN 240 ELSE maxLen

\* The offsets in the collapsed text t at which a term of the list occurs
OccursAt(t, queries) == {IndexOf(lc(t), lc(queries[i])) : i \in DOMAIN queries} \ {-1}

\* The excerpt e holds the n characters of t from offset at on, in their place:
\* what e has before them, its marker aside, is what t has before them
HoldsOccurrence(e, t, at, n) ==
  \E p \in 0..Len(e) : \E m \in 0..Min2(2, p) :
     /\ at - (p - m) >= 0
     /\ p + n <= Len(e)
     /\ Slice(e, m, p + n) = Slice(t, at - (p - m), at + n)

\* The lengths of the terms that occur at the earliest offset
EarliestLens(t, queries) ==
  {Len(queries[i]) : i \in {j \in DOMAIN queries : IndexOf(lc(t), lc(queries[j])) = MinOf(OccursAt(t, queries))}}

\* C9 as stated: the excerpt is at most the configured maximum plus the
\* markers long, and when the collapsed content holds a term the excerpt holds
\* the whole of the earliest term occurrence, for terms of every length.
C9_WholeOccurrence ==
  ExcerptDone =>
    LET t == clean(call.args.text)
        queries == call.args.queries
    IN  /\ Len(call.out) <= MaxFor(call.args.maxLen) + 4
        /\ OccursAt(t, queries) # {} =>
              \E n \in EarliestLens(t, queries) :
                 HoldsOccurrence(call.out, t, MinOf(OccursAt(t, queries)), n)

\* C9: the excerpt is at most the configured maximum plus the two markers
\* (4 characters) long, and it holds the whole of every term occurrence at the
\* earliest offset whose term is at most MAX - floor(MAX / 2) characters long.
C9_OccurrenceUpToHalf ==
  ExcerptDone =>
    LET t == clean(call.args.text)
        queries == call.args.queries
        MAX == MaxFor(call.args.maxLen)
    IN  /\ Len(call.out) <= MAX + 4
        /\ OccursAt(t, queries) # {} =>
              \A n \in EarliestLens(t, queries) :
                 n <= MAX - (MAX \div 2) => HoldsOccurrence(call.out, t, MinOf(OccursAt(t, queries)), n)

\* The 240 window of searchRules around a word of 120 characters, cut on both sides
C9_Witness ==
  /\ ExcerptDone
  /\ call.args.maxLen = 240
  /\ EarliestLens(clean(call.args.text), call.args.queries) = {120}
  /\ Len(call.out) = 244
  /\ IndexOf(call.out, call.args.queries[1]) # -1

---------------------------------------------------------------------------
(* highlight in the results of searchRules.                                *)

IsMark(c) == c \in {"LAQUO", "RAQUO"}

\* e without its marks
Strip(e) == SelectSeq(e, LAMBDA c : ~IsMark(c))

\* The position in e of the j-th character that is no mark (0 for j = 0)
CharAt(e, j) ==
  IF j = 0 THEN 0
  ELSE CHOOSE k \in DOMAIN e : ~IsMark(e[k]) /\ Cardinality({m \in 1..k : ~IsMark(e[m])}) = j

\* The marks e has between its j-th and its (j+1)-th character that is no mark
MarksAfter(e, j) ==
  LET lo == CharAt(e, j)
      hi == IF j = Len(Strip(e)) THEN Len(e) + 1 ELSE CharAt(e, j + 1)
  IN  {e[k] : k \in (lo + 1)..(hi - 1)}

\* The n characters from offset at on of the text under e stand between marks
Wrapped(e, at, n) == "LAQUO" \in MarksAfter(e, at) /\ "RAQUO" \in MarksAfter(e, at + n)

\* Every occurrence of the term in raw is wrapped in e
TermWrapped(e, raw, term) ==
  \A at \in 0..(Len(raw) - Len(term)) :
     SubSeq(lc(raw), at + 1, at + Len(term)) = lc(term) => Wrapped(e, at, Len(term))

\* C10: with highlight on, every occurrence in the excerpt of every non-empty
\* term of the expanded list is wrapped in marks, also when a term is part of
\* another one; with highlight off the excerpt is what makeExcerpt made.
C10_Highlight ==
  SearchDone =>
    LET queries == QueriesOf(call.args.q)
        results == call.out.results
    IN  \A k \in DOMAIN results :
           \E i \in DOMAIN RULES :
              LET raw == makeExcerpt(clean(Field(RULES[i], "content")), queries, 240)
                  e == results[k].excerpt
              IN  /\ results[k].id = ResultId(RULES[i])
                  /\ IF call.args.doHighlight
                     THEN /\ Strip(e) = raw
                          /\ \A qi \in DOMAIN queries :
                                Trim(queries[qi]) # <<>> => TermWrapped(e, raw, Trim(queries[qi]))
                     ELSE e = raw

---------------------------------------------------------------------------
(* expandQueryWithSynonyms as a function of the query and the table.       *)

\* merged[k] = v for the entries of data/synonyms.json (lines 88-96): the
\* value of a key the table has is replaced in place, a new key goes last
RECURSIVE MergeSynonyms(_, _)
MergeSynonyms(merged, fileSyn) ==
  IF fileSyn = <<>> THEN merged
  ELSE LET e == Head(fileSyn)
           at == {i \in DOMAIN merged : merged[i].key = e.key}
       IN  MergeSynonyms(IF at = {} THEN Append(merged, e)
                         ELSE [i \in DOMAIN merged |-> IF i \in at THEN e ELSE merged[i]],
                         Tail(fileSyn))

\* A synonyms.json that replaces the alternates of one key and adds a key
FILE_SYNONYMS == <<
  [key |-> <<"t","i","m","e"," ","p","l","a","y">>, alts |-> <<<<"t","i","m","i","n","g"," ","p","l","a","y">>, <<"t","i","m","e"," ","p","l","a","y">>, <<"t","i","m","i","n","g"," ","p","l","a","y">>>>],
  [key |-> <<"s","q","u","e","e","z","e">>, alts |-> <<<<"s","q","u","e","e","z","e"," ","p","l","a","y">>, <<"t","a","g"," ","u","p">>>>] >>

\* The table without a synonyms.json, and with FILE_SYNONYMS merged in
SYNONYM_TABLES == {DEFAULT_SYNONYMS, MergeSynonyms(DEFAULT_SYNONYMS, FILE_SYNONYMS)}

\* Every key and every alternate of the tables, and queries that hold no
\* key, a key in capitals, a key inside a sentence, two keys
EXPAND_QUERIES ==
  UNION {{t[i].key : i \in DOMAIN t} : t \in SYNONYM_TABLES}
  \cup UNION {UNION {Range(t[i].alts) : i \in DOMAIN t} : t \in SYNONYM_TABLES}
  \cup {<<"z","z","z">>, <<"T","a","g"," ","U","p">>, <<"i","s"," ","a"," ","f","o","u","l"," ","t","i","p"," ","a"," ","s","t","r","i","k","e">>, <<"I","F","R">>, <<"b","a","l","k">>,
        <<"C","a","t","c","h","e","r","'","s"," ","I","n","t","e","r","f","e","r","e","n","c","e">>, <<"a","p","p","e","a","l"," ","p","l","a","y"," ","o","n"," ","a"," ","f","o","r","c","e"," ","p","l","a","y">>, <<"s","q","u","e","e","z","e"," ","b","u","n","t"," ","a","t","t","e","m","p","t">>}

InitExpand ==
  /\ RULES = <<>>
  /\ SYNONYMS \in SYNONYM_TABLES
  /\ RL_BUCKET = EMPTY
  /\ now = 0
  /\ res = NoResponse
  /\ admitted = EMPTY
  /\ call \in {[fn |-> "expandQueryWithSynonyms", args |-> [q |-> q], done |-> FALSE, out |-> <<>>] :
                 q \in EXPAND_QUERIES}

RunExpand ==
  /\ call.fn = "expandQueryWithSynonyms"
  /\ ~call.done
  /\ call' = [call EXCEPT !.done = TRUE, !.out = expandQueryWithSynonyms(call.args.q)]
  /\ UNCHANGED <<RULES, SYNONYMS, RL_BUCKET, now, res, admitted>>

SpecExpand == InitExpand /\ [][RunExpand]_vars

ExpandDone == call.fn = "expandQueryWithSynonyms" /\ call.done

\* The alternates of the keys of the table that occur in lowercase q
AlternatesFor(q) ==
  UNION {Range(SYNONYMS[i].alts) : i \in {j \in DOMAIN SYNONYMS : IndexOf(lc(q), SYNONYMS[j].key) # -1}}

\* q is first, no term is there twice, and the terms after q are alternates
\* of keys that occur in lowercase q
OnePass(q, out) ==
  /\ out # <<>>
  /\ out[1] = q
  /\ \A i, j \in DOMAIN out : i # j => out[i] # out[j]
  /\ \A i \in DOMAIN out : i > 1 => out[i] \in AlternatesFor(q)

\* The terms that expanding every term of out gives
ReExpanded(out) == UNION {Range(expandQueryWithSynonyms(out[i])) : i \in DOMAIN out}

\* C11 as stated: expanding the terms of expandQueryWithSynonyms(q) again adds
\* no term beyond those of the one pass over q; the one pass has q first, no
\* duplicate, and alternates only of keys that occur in lowercase q.
C11_Idempotent ==
  ExpandDone => OnePass(call.args.q, call.out) /\ ReExpanded(call.out) \subseteq Range(call.out)

\* C11: one pass has q first, no duplicate, and after q exactly the alternates
\* of the keys that occur in lowercase q; an alternate is not expanded itself,
\* so expanding q again gives the same list, and expanding the other terms
\* again adds only alternates of keys that occur in an alternate and not in q.
C11_OnePassOnly ==
  ExpandDone =>
    LET q == call.args.q
        out == call.out
    IN  /\ OnePass(q, out)
        /\ Range(out) = {q} \cup AlternatesFor(q)
        /\ expandQueryWithSynonyms(out[1]) = out
        /\ Range(out) \subseteq ReExpanded(out)
        /\ \A t \in ReExpanded(out) \ Range(out) :
              \E i \in DOMAIN out : i > 1 /\ t \in AlternatesFor(out[i]) \ AlternatesFor(q)

\* A query in capitals whose alternate holds a key that the query does not
C11_Witness ==
  /\ ExpandDone
  /\ call.args.q # lc(call.args.q)
  /\ Len(call.out) >= 3
  /\ ReExpanded(call.out) \ Range(call.out) # {}

---------------------------------------------------------------------------
(* The preflight, the frame of the shared state, and refused requests.     *)

ENDPOINTS == {"rulebook", "suggest", "ruleById", "ruleByCitation"}

\* C12: each of the four endpoints answers every OPTIONS request with 204 and
\* no body, whatever the rate-limit bucket holds, also for a client that has
\* used up its quota for the current window.
C12_Preflight ==
  (res.endpoint # "none" /\ res.req.method = "OPTIONS") =>
     /\ res.endpoint \in ENDPOINTS
     /\ res.status = 204
     /\ res.body = NoBody
     /\ res.retryAfter = 0

\* A preflight answered for a client whose quota for the window is used up
C12_Witness ==
  /\ res.endpoint = "ruleByCitation"
  /\ res.req.method = "OPTIONS"
  /\ res.status = 204
  /\ AdmittedIn(AddressOf(res.req), now - RL_WINDOW_MS, now) = RL_MAX

\* C13: after initialization no request changes the rule store or the synonym
\* table, whatever its parameters and its outcome: both keep the content and
\* the order they had at load time.
C13_ReadOnly ==
  /\ [][RULES' = RULES /\ SYNONYMS' = SYNONYMS]_vars
  /\ [](RULES \in STORES /\ SYNONYMS = DEFAULT_SYNONYMS)

\* The loaded store as it was, after a search has been answered, requests
\* have been admitted and the last one has been refused
C13_Witness ==
  /\ RULES = STORE
  /\ SYNONYMS = DEFAULT_SYNONYMS
  /\ res.status = 429
  /\ res.endpoint = "rulebook"
  /\ Truthy(RequestQ(res.req))
  /\ RL_BUCKET # EMPTY

\* The oldest timestamp the bucket holds for an address
Oldest(ip) == MinOf(Range(RL_BUCKET[ip]))

\* The bucket holds a timestamp for the address
Recorded(ip) == ip \in DOMAIN RL_BUCKET /\ RL_BUCKET[ip] # <<>>

\* C14: a request refused with 429 leaves the rate-limit bucket as it was, for
\* its address and for every other; and once more than RL_WINDOW_MS has passed
\* since the oldest timestamp recorded for an address, the next request of that
\* address is admitted, whatever was refused in between.
C14_RefusedLeavesBucket ==
  [][Handles =>
       LET ip == AddressOf(res'.req)
       IN  /\ res'.status = 429 => RL_BUCKET' = RL_BUCKET
           /\ (Recorded(ip) /\ now - Oldest(ip) > RL_WINDOW_MS) =>
                 (res'.status # 429 /\ Admits /\ now \in Range(RL_BUCKET'[ip]))]_vars

\* A client refused with a full bucket, after which more than the window has passed
C14_Witness ==
  /\ res.endpoint # "none"
  /\ res.status = 429
  /\ Recorded(AddressOf(res.req))
  /\ Len(RL_BUCKET[AddressOf(res.req)]) = RL_MAX
  /\ now - Oldest(AddressOf(res.req)) > RL_WINDOW_MS

=============================================================================
